---- MODULE Spec2Model ----
(***************************************************************************)
(* A model of docka's interactive core: the App selection state and its    *)
(* refresh (src/ui/app.rs), the ContainerListWidget selection mirror       *)
(* (src/ui/widgets/container_list.rs), the ContainerStatus transition      *)
(* rules (src/domain/value_objects/container_status.rs), the Container     *)
(* record and its builder (src/domain/entities/container.rs), the key      *)
(* mapping, validator and EventStats (src/ui/events.rs), the runtime       *)
(* operations (src/infrastructure/docker/bollard_client.rs), and main's    *)
(* initial load and event loop (src/main.rs).                              *)
(*                                                                         *)
(* Rust values are written as tuples: Option<T> is <<>> (None) or <<x>>    *)
(* (Some(x)); an enum value is <<"Variant", fields...>>; a String built by *)
(* format! is the sequence of its pieces, so that two messages are equal   *)
(* exactly when their texts are.                                           *)
(***************************************************************************)
EXTENDS Integers, Sequences, FiniteSets, TLC

VARIABLES
    app,        \* the App struct (src/ui/app.rs:66-149), last_activity left out
    widget,     \* the ContainerListWidget (its ListState's selected index)
    pc,         \* "idle", or "list_containers" while refresh_containers awaits
    container,  \* one Container record, the receiver of update_status
    result,     \* the value the last completed call returned
    last_call,  \* the last completed call, its input and what it was called on
    outcomes,   \* the calls a logging specification has made so far, in order
    run_app     \* run_app's position and locals (src/main.rs:227-277)

vars == <<app, widget, pc, container, result, last_call, outcomes, run_app>>

-----------------------------------------------------------------------------
(* Bounds of the model *)

\* largest selected_index a caller stores in the public field
MaxIndex == 5

\* most select_next / select_previous calls kept in the log
MaxCalls == 8

\* most labels a builder is given
MaxLabels == 2

\* src/domain/value_objects/container_id.rs: the longest container id
MaxIdLength == 64

\* src/domain/entities/container.rs: the longest name, image, label key or value
MaxFieldLength == 255

\* most calls the runtime client receives in a run
MaxClientCalls == 4

\* most key events the event loop dispatches in a run
MaxEvents == 2

\* src/main.rs: the poll timeout and the render interval, in milliseconds
EVENT_POLL_INTERVAL == 100

TARGET_FPS == 16

\* longest list the runtime returns
MaxLen == 3

\* number of distinct container records the runtime can return
NumContainers == 2

\* exit codes range over -1..MaxExitCode (-1 is from_docker_string's default)
MaxExitCode == 1

-----------------------------------------------------------------------------
(* Option, Result *)

None == <<>>

Some(x) == <<x>>

unwrap_or(o, d) == IF o = None THEN d ELSE o[1]

Ok == <<"Ok">>

Err(e) == <<"Err", e>>

-----------------------------------------------------------------------------
(* DockaError and its Display (src/error/app_error.rs) *)

DockerDaemonNotRunning == <<"DockerDaemonNotRunning">>

PermissionDenied(operation) == <<"PermissionDenied", operation>>

InvalidInput(message) == <<"InvalidInput", message>>

ContainerNotFound(name) == <<"ContainerNotFound", name>>

DockerApi == <<"DockerApi">>

Io == <<"Io">>

UiRendering(message) == <<"UiRendering", message>>

DockaError_to_string(e) ==
    IF e[1] = "DockerDaemonNotRunning"
    THEN <<"Docker daemon is not running or not accessible. Please ensure Docker is installed and running.">>
    ELSE IF e[1] = "PermissionDenied"
    THEN <<"Permission denied: ">> \o e[2]
    ELSE <<"Invalid input: ">> \o e[2]

\* the errors list_containers can reply with
ListErrors == {DockerDaemonNotRunning, PermissionDenied(<<"list containers">>)}

-----------------------------------------------------------------------------
(* ViewState, NavigationDirection, App (src/ui/app.rs) *)

ContainerList == <<"ContainerList">>

Loading == <<"Loading">>

Error(message) == <<"Error", message>>

NavigationDirection == {"Next", "Previous"}

\* the container records the runtime can return, and the lists of them
ContainerPool == 1..NumContainers

ContainerLists == UNION {[1..n -> ContainerPool] : n \in 0..MaxLen}

App_new ==
    [running |-> TRUE,
     should_quit |-> FALSE,
     containers |-> <<>>,
     selected_index |-> 0,
     view_state |-> Loading,
     last_error |-> None,
     show_help |-> FALSE]

\* refresh_containers up to its await
refresh_containers_begin(self) ==
    [self EXCEPT !.view_state = Loading, !.last_error = None]

\* a refresh that sends an out-of-range selection back to the first record
refresh_containers_ok_reset(self, containers) ==
    [self EXCEPT !.containers = containers,
                 !.selected_index = IF self.selected_index >= Len(containers)
                                    THEN 0
                                    ELSE self.selected_index,
                 !.view_state = ContainerList,
                 !.last_error = None]

\* a refresh that stores the new list and keeps the index it finds
refresh_containers_ok_unclamped(self, containers) ==
    [self EXCEPT !.containers = containers,
                 !.view_state = ContainerList,
                 !.last_error = None]

\* refresh_containers, the Ok(containers) arm
refresh_containers_ok(self, containers) ==
    LET len == Len(containers)
        index == IF self.selected_index >= len /\ containers # <<>>
                 THEN len - 1
                 ELSE IF containers = <<>> THEN 0 ELSE self.selected_index
    IN [self EXCEPT !.containers = containers,
                    !.selected_index = index,
                    !.view_state = ContainerList,
                    !.last_error = None]

\* a refresh that drops the list when the fetch fails
refresh_containers_err_clearing(self, error) ==
    LET error_message == DockaError_to_string(error)
    IN [self EXCEPT !.containers = <<>>,
                    !.selected_index = 0,
                    !.view_state = Error(error_message),
                    !.last_error = Some(error_message)]

\* a failed refresh that records the error and leaves the view as it is
refresh_containers_err_still_loading(self, error) ==
    [self EXCEPT !.last_error = Some(DockaError_to_string(error))]

\* refresh_containers, the Err(error) arm
refresh_containers_err(self, error) ==
    LET error_message == DockaError_to_string(error)
    IN [self EXCEPT !.view_state = Error(error_message),
                    !.last_error = Some(error_message)]

is_running(self) == self.running /\ ~self.should_quit

\* a quit that leaves the flags as they are
quit_ignored(self) == self

quit(self) == [self EXCEPT !.should_quit = TRUE]

force_quit(self) == [self EXCEPT !.running = FALSE, !.should_quit = TRUE]

\* <[T]>::get on a Vec: the element at a 0-based index, None past the end
get(v, index) == IF index < Len(v) THEN Some(v[index + 1]) ELSE None

selected_container(self) == get(self.containers, self.selected_index)

\* a get_selected_container that clamps the index to the last record
get_selected_container_clamped(self) ==
    IF self.containers = <<>>
    THEN None
    ELSE IF self.selected_index < Len(self.containers)
         THEN Some(self.containers[self.selected_index + 1])
         ELSE Some(self.containers[Len(self.containers)])

get_selected_container(self) ==
    IF self.selected_index < Len(self.containers)
    THEN Some(self.containers[self.selected_index + 1])
    ELSE None

\* a select_next that returns at once on an empty list, index untouched
App_select_next_skipping_empty(self) ==
    IF self.containers = <<>>
    THEN self
    ELSE LET len == Len(self.containers)
             normalized == IF self.selected_index >= len THEN 0 ELSE self.selected_index
         IN [self EXCEPT !.selected_index = (normalized + 1) % len]

\* a select_next that advances without normalizing first
App_select_next_unnormalized(self) ==
    IF self.containers = <<>>
    THEN [self EXCEPT !.selected_index = 0]
    ELSE [self EXCEPT !.selected_index = (self.selected_index + 1) % Len(self.containers)]

\* a select_next that stops at the last index instead of wrapping
App_select_next_saturating(self) ==
    IF self.containers = <<>>
    THEN [self EXCEPT !.selected_index = 0]
    ELSE LET len == Len(self.containers)
             normalized == IF self.selected_index >= len THEN 0 ELSE self.selected_index
         IN [self EXCEPT !.selected_index =
                 IF normalized + 1 >= len THEN len - 1 ELSE normalized + 1]

App_select_next(self) ==
    IF self.containers = <<>>
    THEN [self EXCEPT !.selected_index = 0]
    ELSE LET len == Len(self.containers)
             normalized == IF self.selected_index >= len THEN 0 ELSE self.selected_index
         IN [self EXCEPT !.selected_index = (normalized + 1) % len]

\* a select_previous that steps back without normalizing first
App_select_previous_unnormalized(self) ==
    IF self.containers = <<>>
    THEN [self EXCEPT !.selected_index = 0]
    ELSE [self EXCEPT !.selected_index =
             IF self.selected_index = 0
             THEN Len(self.containers) - 1
             ELSE self.selected_index - 1]

\* a select_previous that stops at index 0 instead of wrapping
App_select_previous_saturating(self) ==
    IF self.containers = <<>>
    THEN [self EXCEPT !.selected_index = 0]
    ELSE LET len == Len(self.containers)
             normalized == IF self.selected_index >= len THEN 0 ELSE self.selected_index
         IN [self EXCEPT !.selected_index =
                 IF normalized = 0 THEN 0 ELSE normalized - 1]

App_select_previous(self) ==
    IF self.containers = <<>>
    THEN [self EXCEPT !.selected_index = 0]
    ELSE LET len == Len(self.containers)
             normalized == IF self.selected_index >= len THEN 0 ELSE self.selected_index
         IN [self EXCEPT !.selected_index =
                 IF normalized = 0 THEN len - 1 ELSE normalized - 1]

-----------------------------------------------------------------------------
(* ContainerListWidget (src/ui/widgets/container_list.rs) *)

Widget_new == [selected |-> None]

Widget_select_next(self, container_count) ==
    IF container_count = 0
    THEN self
    ELSE LET selected == unwrap_or(self.selected, 0)
             next == IF selected + 1 >= container_count THEN 0 ELSE selected + 1
         IN [self EXCEPT !.selected = Some(next)]

Widget_select_previous(self, container_count) ==
    IF container_count = 0
    THEN self
    ELSE LET selected == unwrap_or(self.selected, 0)
             previous == IF selected = 0 THEN container_count - 1 ELSE selected - 1
         IN [self EXCEPT !.selected = Some(previous)]

Widget_set_selected(self, index) == [self EXCEPT !.selected = index]

\* a sync_with_app that accepts an index equal to the count
Widget_sync_with_app_inclusive(self, app_selected_index, container_count) ==
    IF container_count > 0 /\ app_selected_index <= container_count
    THEN [self EXCEPT !.selected = Some(app_selected_index)]
    ELSE [self EXCEPT !.selected = None]

Widget_sync_with_app(self, app_selected_index, container_count) ==
    IF container_count > 0 /\ app_selected_index < container_count
    THEN [self EXCEPT !.selected = Some(app_selected_index)]
    ELSE [self EXCEPT !.selected = None]

\* App::sync_widget_state: the widget after the call
sync_widget_state(self, w) ==
    IF self.containers # <<>> /\ self.selected_index < Len(self.containers)
    THEN Widget_set_selected(w, Some(self.selected_index))
    ELSE Widget_set_selected(w, None)

\* a handle_container_navigation that moves the widget and leaves the App
handle_container_navigation_widget_only(self, w, direction) ==
    IF self.containers = <<>>
    THEN [app |-> self, widget |-> w]
    ELSE [app |-> self,
          widget |-> IF direction = "Next"
                     THEN Widget_select_next(w, Len(self.containers))
                     ELSE Widget_select_previous(w, Len(self.containers))]

\* App::handle_container_navigation: the App and the widget after the call
handle_container_navigation(self, w, direction) ==
    IF self.containers = <<>>
    THEN [app |-> self, widget |-> w]
    ELSE LET w2 == IF direction = "Next"
                   THEN Widget_select_next(w, Len(self.containers))
                   ELSE Widget_select_previous(w, Len(self.containers))
         IN [app |-> IF w2.selected # None
                     THEN [self EXCEPT !.selected_index = w2.selected[1]]
                     ELSE self,
             widget |-> w2]

-----------------------------------------------------------------------------
(* ContainerStatus (src/domain/value_objects/container_status.rs) *)

Running == <<"Running">>

Stopped == <<"Stopped">>

Starting == <<"Starting">>

Stopping == <<"Stopping">>

Exited(exit_code) == <<"Exited", exit_code>>

Paused == <<"Paused">>

Restarting == <<"Restarting">>

Removing == <<"Removing">>

Dead == <<"Dead">>

Created == <<"Created">>

ExitCodes == (-1)..MaxExitCode

ContainerStatus ==
    {Running, Stopped, Starting, Stopping, Paused, Restarting, Removing, Dead, Created}
        \cup {Exited(c) : c \in ExitCodes}

\* the variant of a status, whatever fields it carries
Kind(status) == status[1]

is_active(self) ==
    Kind(self) \in {"Running", "Starting", "Stopping", "Restarting"}

can_start(self) ==
    Kind(self) \in {"Stopped", "Exited", "Created", "Dead"}

\* a can_stop that also accepts a container that is already stopping
can_stop_while_stopping(self) ==
    Kind(self) \in {"Running", "Paused", "Stopping", "Restarting"}

can_stop(self) ==
    Kind(self) \in {"Running", "Paused", "Restarting"}

can_pause(self) ==
    Kind(self) \in {"Running"}

can_unpause(self) ==
    Kind(self) \in {"Paused"}

\* a can_remove written as the complement of is_active
can_remove_unless_active(self) ==
    ~is_active(self)

can_remove(self) ==
    ~(Kind(self) \in {"Running", "Starting", "Stopping", "Removing"})

can_restart(self) ==
    Kind(self) \in {"Running", "Stopped", "Exited", "Paused"}

\* the match with the Paused arm letting a paused container stop at once
can_transition_to_paused_stops(self, target) ==
    LET from == Kind(self)
        to == Kind(target)
    IN IF from = "Running" /\ to \in {"Stopping", "Paused", "Restarting"} THEN TRUE
       ELSE IF from = "Stopped" /\ to \in {"Starting", "Removing"} THEN TRUE
       ELSE IF from = "Starting" /\ to \in {"Running", "Exited", "Dead"} THEN TRUE
       ELSE IF from = "Stopping" /\ to \in {"Stopped", "Exited"} THEN TRUE
       ELSE IF from = "Paused" /\ to \in {"Running", "Stopped"} THEN TRUE
       ELSE IF from = "Restarting" /\ to \in {"Running", "Exited", "Dead"} THEN TRUE
       ELSE IF from = "Exited" /\ to \in {"Starting", "Removing"} THEN TRUE
       ELSE IF from = "Created" /\ to \in {"Starting", "Removing"} THEN TRUE
       ELSE IF from = "Dead" /\ to = "Removing" THEN TRUE
       ELSE IF from = "Removing" THEN FALSE
       ELSE IF self = target THEN TRUE
       ELSE FALSE

\* a can_transition_to without the arm that lets a Dead record be removed
can_transition_to_dead_kept(self, target) ==
    LET from == Kind(self)
        to == Kind(target)
    IN IF from = "Running" /\ to \in {"Stopping", "Paused", "Restarting"} THEN TRUE
       ELSE IF from = "Stopped" /\ to \in {"Starting", "Removing"} THEN TRUE
       ELSE IF from = "Starting" /\ to \in {"Running", "Exited", "Dead"} THEN TRUE
       ELSE IF from = "Stopping" /\ to \in {"Stopped", "Exited"} THEN TRUE
       ELSE IF from = "Paused" /\ to \in {"Running", "Stopping"} THEN TRUE
       ELSE IF from = "Restarting" /\ to \in {"Running", "Exited", "Dead"} THEN TRUE
       ELSE IF from = "Exited" /\ to \in {"Starting", "Removing"} THEN TRUE
       ELSE IF from = "Created" /\ to \in {"Starting", "Removing"} THEN TRUE
       ELSE IF from = "Removing" THEN FALSE
       ELSE IF self = target THEN TRUE
       ELSE FALSE

\* the match of can_transition_to, its arms in source order
can_transition_to(self, target) ==
    LET from == Kind(self)
        to == Kind(target)
    IN IF from = "Running" /\ to \in {"Stopping", "Paused", "Restarting"} THEN TRUE
       ELSE IF from = "Stopped" /\ to \in {"Starting", "Removing"} THEN TRUE
       ELSE IF from = "Starting" /\ to \in {"Running", "Exited", "Dead"} THEN TRUE
       ELSE IF from = "Stopping" /\ to \in {"Stopped", "Exited"} THEN TRUE
       ELSE IF from = "Paused" /\ to \in {"Running", "Stopping"} THEN TRUE
       ELSE IF from = "Restarting" /\ to \in {"Running", "Exited", "Dead"} THEN TRUE
       ELSE IF from = "Exited" /\ to \in {"Starting", "Removing"} THEN TRUE
       ELSE IF from = "Created" /\ to \in {"Starting", "Removing"} THEN TRUE
       ELSE IF from = "Dead" /\ to = "Removing" THEN TRUE
       ELSE IF from = "Removing" THEN FALSE
       ELSE IF self = target THEN TRUE
       ELSE FALSE

\* Display for ContainerStatus
ContainerStatus_to_string(self) ==
    IF Kind(self) = "Exited"
    THEN <<"Exited (", ToString(self[2]), ")">>
    ELSE <<Kind(self)>>

-----------------------------------------------------------------------------
(* Container (src/domain/entities/container.rs) *)

\* a Container as Container::builder().id(..).image(..).status(..).build() makes it
Container_new(status) ==
    [id |-> "test-123",
     name |-> "",
     image |-> "nginx:latest",
     status |-> status,
     created_at |-> 0,
     labels |-> <<>>,
     command |-> None,
     working_dir |-> None]

\* an update_status that never validates the transition
update_status_unvalidated(self, new_status) ==
    [container |-> [self EXCEPT !.status = new_status], result |-> Ok]

\* an update_status that assigns the status before it validates the transition
update_status_assign_first(self, new_status) ==
    IF ~can_transition_to(self.status, new_status)
    THEN [container |-> [self EXCEPT !.status = new_status],
          result |-> Err(InvalidInput(
              <<"Invalid status transition from ">>
                  \o ContainerStatus_to_string(self.status)
                  \o <<" to ">>
                  \o ContainerStatus_to_string(new_status)))]
    ELSE [container |-> [self EXCEPT !.status = new_status],
          result |-> Ok]

\* Container::update_status: the record after the call and the value returned
update_status(self, new_status) ==
    IF ~can_transition_to(self.status, new_status)
    THEN [container |-> self,
          result |-> Err(InvalidInput(
              <<"Invalid status transition from ">>
                  \o ContainerStatus_to_string(self.status)
                  \o <<" to ">>
                  \o ContainerStatus_to_string(new_status)))]
    ELSE [container |-> [self EXCEPT !.status = new_status],
          result |-> Ok]

-----------------------------------------------------------------------------
(* Key events and AppEvent (src/ui/events.rs) *)

\* the characters a Char key carries in the model: the bound ones and others
Chars == {"j", "k", "r", "q", "c", "J", "x"}

\* crossterm's KeyCode: the variants without a field, F(n) and Char(c)
KeyCode ==
    {<<name>> : name \in {"Backspace", "Enter", "Left", "Right", "Up", "Down",
                          "Home", "End", "PageUp", "PageDown", "Tab", "BackTab",
                          "Delete", "Insert", "Null", "Esc", "CapsLock",
                          "ScrollLock", "NumLock", "PrintScreen", "Pause",
                          "Menu", "KeypadBegin"}}
        \cup {<<"F", n>> : n \in {1, 5}}
        \cup {<<"Char", c>> : c \in Chars}

\* KeyModifiers is a set of flags
KeyModifiers == SUBSET {"SHIFT", "CONTROL"}

\* KeyEvent: the two fields the handlers read
KeyEvent == [code : KeyCode, modifiers : KeyModifiers]

AppEvent_Quit == <<"Quit">>

AppEvent_ForceQuit == <<"ForceQuit">>

AppEvent_Refresh == <<"Refresh">>

AppEvent_SelectNext == <<"SelectNext">>

AppEvent_SelectPrevious == <<"SelectPrevious">>

AppEvent_Enter == <<"Enter">>

AppEvent_Unknown == <<"Unknown">>

AppEvent ==
    {AppEvent_Quit, AppEvent_ForceQuit, AppEvent_Refresh, AppEvent_SelectNext,
     AppEvent_SelectPrevious, AppEvent_Enter, AppEvent_Unknown}

\* a handle_key_event whose Char('c') arm has lost its guard
handle_key_event_unguarded(key_event) ==
    LET code == key_event.code
    IN IF code = <<"Char", "j">> \/ code = <<"Down">> THEN AppEvent_SelectNext
       ELSE IF code = <<"Char", "k">> \/ code = <<"Up">> THEN AppEvent_SelectPrevious
       ELSE IF code = <<"Enter">> THEN AppEvent_Enter
       ELSE IF code = <<"Char", "r">> \/ code = <<"F", 5>> THEN AppEvent_Refresh
       ELSE IF code = <<"Char", "q">> \/ code = <<"Esc">> THEN AppEvent_Quit
       ELSE IF code = <<"Char", "c">> THEN AppEvent_ForceQuit
       ELSE AppEvent_Unknown

handle_key_event(key_event) ==
    LET code == key_event.code
    IN IF code = <<"Char", "j">> \/ code = <<"Down">> THEN AppEvent_SelectNext
       ELSE IF code = <<"Char", "k">> \/ code = <<"Up">> THEN AppEvent_SelectPrevious
       ELSE IF code = <<"Enter">> THEN AppEvent_Enter
       ELSE IF code = <<"Char", "r">> \/ code = <<"F", 5>> THEN AppEvent_Refresh
       ELSE IF code = <<"Char", "q">> \/ code = <<"Esc">> THEN AppEvent_Quit
       ELSE IF code = <<"Char", "c">> /\ "CONTROL" \in key_event.modifiers
            THEN AppEvent_ForceQuit
       ELSE AppEvent_Unknown

\* a validator that lets every key code through
validate_key_input_accepting_all(key_event) ==
    key_event.code \in KeyCode

\* a validator whose allow-list has no function keys
validate_key_input_without_function_keys(key_event) ==
    LET code == key_event.code
    IN \/ code[1] = "Char"
       \/ code[1] \in {"Up", "Down", "Left", "Right"}
       \/ code[1] \in {"Enter", "Esc", "Tab", "BackTab"}
       \/ code[1] \in {"Backspace", "Delete"}
       \/ code[1] \in {"Home", "End"}
       \/ code[1] \in {"PageUp", "PageDown"}

validate_key_input(key_event) ==
    LET code == key_event.code
    IN \/ code[1] = "Char"
       \/ code[1] \in {"Up", "Down", "Left", "Right"}
       \/ code[1] \in {"Enter", "Esc", "Tab", "BackTab"}
       \/ code[1] = "F"
       \/ code[1] \in {"Backspace", "Delete"}
       \/ code[1] \in {"Home", "End"}
       \/ code[1] \in {"PageUp", "PageDown"}

EventStats_new ==
    [total_events |-> 0,
     navigation_events |-> 0,
     action_events |-> 0,
     unknown_events |-> 0,
     error_count |-> 0]

\* a record_event that counts the event and not its error
record_event_uncounted_error(self, event, res) ==
    IF event \in {AppEvent_SelectNext, AppEvent_SelectPrevious}
    THEN [self EXCEPT !.total_events = @ + 1, !.navigation_events = @ + 1]
    ELSE IF event \in {AppEvent_Enter, AppEvent_Refresh,
                       AppEvent_Quit, AppEvent_ForceQuit}
    THEN [self EXCEPT !.total_events = @ + 1, !.action_events = @ + 1]
    ELSE [self EXCEPT !.total_events = @ + 1, !.unknown_events = @ + 1]

\* a record_event whose Unknown arm counts nothing
record_event_unknown_dropped(self, event, res) ==
    LET counted ==
            IF event \in {AppEvent_SelectNext, AppEvent_SelectPrevious}
            THEN [self EXCEPT !.total_events = @ + 1, !.navigation_events = @ + 1]
            ELSE IF event \in {AppEvent_Enter, AppEvent_Refresh,
                               AppEvent_Quit, AppEvent_ForceQuit}
            THEN [self EXCEPT !.total_events = @ + 1, !.action_events = @ + 1]
            ELSE [self EXCEPT !.total_events = @ + 1]
    IN IF res[1] = "Err"
       THEN [counted EXCEPT !.error_count = @ + 1]
       ELSE counted

record_event(self, event, res) ==
    LET counted ==
            IF event \in {AppEvent_SelectNext, AppEvent_SelectPrevious}
            THEN [self EXCEPT !.total_events = @ + 1, !.navigation_events = @ + 1]
            ELSE IF event \in {AppEvent_Enter, AppEvent_Refresh,
                               AppEvent_Quit, AppEvent_ForceQuit}
            THEN [self EXCEPT !.total_events = @ + 1, !.action_events = @ + 1]
            ELSE [self EXCEPT !.total_events = @ + 1, !.unknown_events = @ + 1]
    IN IF res[1] = "Err"
       THEN [counted EXCEPT !.error_count = @ + 1]
       ELSE counted

\* process_app_event's arms that do not await: the App after the call
process_app_event(self, event) ==
    CASE event = AppEvent_Quit -> quit(self)
      [] event = AppEvent_ForceQuit -> force_quit(self)
      [] event = AppEvent_SelectNext -> App_select_next(self)
      [] event = AppEvent_SelectPrevious -> App_select_previous(self)
      [] event = AppEvent_Enter -> self
      [] event = AppEvent_Unknown -> self

\* run_app before its first iteration; in_flight counts the list_containers
\* calls the runtime client has received and not yet answered
RunApp_new ==
    [at |-> "while",
     key_event |-> None,
     app_event |-> None,
     event_stats |-> EventStats_new,
     due |-> FALSE,
     in_flight |-> 0]

-----------------------------------------------------------------------------
(* The App and its widget under any sequence of calls *)

Init ==
    /\ app = App_new
    /\ widget = Widget_new
    /\ pc = "idle"
    /\ container = Container_new(Running)
    /\ result = None
    /\ last_call = <<"new">>
    /\ outcomes = <<>>
    /\ run_app = RunApp_new

SelectNextCall ==
    /\ pc = "idle"
    /\ app' = App_select_next(app)
    /\ result' = None
    /\ last_call' = <<"select_next">>
    /\ UNCHANGED <<widget, pc, container>>

SelectNext ==
    /\ SelectNextCall
    /\ UNCHANGED <<outcomes, run_app>>

SelectPreviousCall ==
    /\ pc = "idle"
    /\ app' = App_select_previous(app)
    /\ result' = None
    /\ last_call' = <<"select_previous">>
    /\ UNCHANGED <<widget, pc, container>>

SelectPrevious ==
    /\ SelectPreviousCall
    /\ UNCHANGED <<outcomes, run_app>>

HandleContainerNavigation ==
    /\ pc = "idle"
    /\ \E direction \in NavigationDirection :
          LET after == handle_container_navigation(app, widget, direction)
          IN /\ app' = after.app
             /\ widget' = after.widget
             /\ last_call' = <<"handle_container_navigation", direction,
                                app.selected_index, widget.selected>>
    /\ result' = None
    /\ UNCHANGED <<pc, container, outcomes, run_app>>

RefreshBegin ==
    /\ pc = "idle"
    /\ app' = refresh_containers_begin(app)
    /\ pc' = "list_containers"
    /\ UNCHANGED <<widget, container, result, last_call, outcomes, run_app>>

RefreshOk ==
    /\ pc = "list_containers"
    /\ \E containers \in ContainerLists :
          /\ app' = refresh_containers_ok(app, containers)
          /\ last_call' = <<"refresh_containers", <<"Ok", containers>>, app.selected_index>>
    /\ result' = Ok
    /\ pc' = "idle"
    /\ UNCHANGED <<widget, container, outcomes, run_app>>

RefreshErr ==
    /\ pc = "list_containers"
    /\ \E error \in ListErrors :
          /\ app' = refresh_containers_err(app, error)
          /\ result' = Err(error)
          /\ last_call' = <<"refresh_containers", <<"Err", error>>, app.selected_index>>
    /\ pc' = "idle"
    /\ UNCHANGED <<widget, container, outcomes, run_app>>

Next ==
    \/ SelectNext
    \/ SelectPrevious
    \/ HandleContainerNavigation
    \/ RefreshBegin
    \/ RefreshOk
    \/ RefreshErr

Spec == Init /\ [][Next]_vars

-----------------------------------------------------------------------------
(* Selection and mirror claims, checked under Spec *)

\* the steps of one refresh_containers call: up to the await, and its completion
RefreshCallBegins == pc = "idle" /\ pc' = "list_containers"

RefreshCallCompletes(arm) ==
    pc = "list_containers" /\ pc' = "idle" /\ last_call'[2][1] = arm

RefreshBeginKeepsSelection ==
    RefreshCallBegins =>
        /\ app'.containers = app.containers
        /\ app'.selected_index = app.selected_index

\* C1: after any completed operation, a non-empty list implies
\* selected_index < containers.len().
C1_IndexInRange ==
    pc = "idle" =>
        (app.containers # <<>> => app.selected_index < Len(app.containers))

\* C2: after each completed handle_container_navigation and each completed
\* refresh_containers, the mirror is Some(selected_index) when the list is
\* non-empty and None when it is empty.
C2_MirrorReconciled ==
    (pc = "idle" /\ last_call[1] \in {"handle_container_navigation", "refresh_containers"}) =>
        widget.selected = IF app.containers # <<>>
                          THEN Some(app.selected_index)
                          ELSE None

\* C3: a failed fetch is returned to the caller, leaves containers and
\* selected_index as they were before the call, and leaves view_state at
\* Error(message), the message being the error's text.
C3_RefreshFailureAtomic ==
    [][/\ RefreshBeginKeepsSelection
       /\ RefreshCallCompletes("Err") =>
            LET error == last_call'[2][2]
            IN /\ result' = Err(error)
               /\ app'.containers = app.containers
               /\ app'.selected_index = app.selected_index
               /\ app'.view_state = Error(DockaError_to_string(error))]_vars

\* a failed refresh has completed on a non-empty list with a selection past
\* the first record
C3_Witness ==
    /\ pc = "idle"
    /\ last_call[1] = "refresh_containers"
    /\ last_call[2][1] = "Err"
    /\ result = Err(last_call[2][2])
    /\ Len(app.containers) >= 2
    /\ app.selected_index >= 1
    /\ app.selected_index = last_call[3]
    /\ app.view_state[1] = "Error"

\* C4: a fetch that succeeds with list L leaves the stored list equal to L,
\* view_state at ContainerList, and selected_index at len(L)-1 when the old
\* index was >= len(L) and L is non-empty, at 0 when L is empty, and at the
\* old index otherwise.
C4_RefreshSuccess ==
    [][/\ RefreshBeginKeepsSelection
       /\ RefreshCallCompletes("Ok") =>
            LET L == last_call'[2][2]
                old == app.selected_index
            IN /\ result' = Ok
               /\ app'.containers = L
               /\ app'.view_state = ContainerList
               /\ (old >= Len(L) /\ L # <<>> => app'.selected_index = Len(L) - 1)
               /\ (L = <<>> => app'.selected_index = 0)
               /\ (old < Len(L) => app'.selected_index = old)]_vars

\* a refresh called with selected_index = 2 has returned two records and the
\* selection is now the last of them
C4_Witness ==
    /\ pc = "idle"
    /\ last_call[1] = "refresh_containers"
    /\ last_call[2][1] = "Ok"
    /\ last_call[3] = 2
    /\ Len(app.containers) = 2
    /\ app.selected_index = 1
    /\ app.view_state = ContainerList

\* C5: on a non-empty list and whatever the mirror held, navigation moves
\* selected_index as App::select_next / App::select_previous would move it
\* from the prior selected_index, and leaves the mirror at Some of that value.
C5_NavigationFollowsSelectionState ==
    [][(pc = "idle" /\ last_call'[1] = "handle_container_navigation"
        /\ app.containers # <<>>) =>
            LET expected == IF last_call'[2] = "Next"
                            THEN App_select_next(app).selected_index
                            ELSE App_select_previous(app).selected_index
            IN /\ app'.selected_index = expected
               /\ widget'.selected = Some(expected)]_vars

\* an App holding count records with selected_index = i
AppOfLength(count, i) ==
    [App_new EXCEPT !.containers = [k \in 1..count |-> 1], !.selected_index = i]

\* C6: for every count >= 1 and every stored mirror index i (None read as
\* 0, i >= count included), the widget's select_next(count) and
\* select_previous(count) leave the mirror at the index App::select_next and
\* App::select_previous produce from selected_index = i on count records.
C6_MirrorHelpersMatchController ==
    \A count \in 1..MaxLen :
        LET i == unwrap_or(widget.selected, 0)
        IN /\ Widget_select_next(widget, count).selected
                = Some(App_select_next(AppOfLength(count, i)).selected_index)
           /\ Widget_select_previous(widget, count).selected
                = Some(App_select_previous(AppOfLength(count, i)).selected_index)

-----------------------------------------------------------------------------
(* One Container record under any sequence of update_status calls *)

InitStatus ==
    /\ app = App_new
    /\ widget = Widget_new
    /\ pc = "idle"
    /\ \E status \in ContainerStatus : container = Container_new(status)
    /\ result = None
    /\ last_call = <<"build">>
    /\ outcomes = <<>>
    /\ run_app = RunApp_new

\* one call container.update_status(new_status)
UpdateStatusCall(new_status) ==
    LET after == update_status(container, new_status)
    IN /\ container' = after.container
       /\ result' = after.result
       /\ last_call' = <<"update_status", container.status, new_status>>
       /\ UNCHANGED <<app, widget, pc>>

UpdateStatus ==
    \E new_status \in ContainerStatus :
        /\ UpdateStatusCall(new_status)
        /\ UNCHANGED <<outcomes, run_app>>

NextStatus == UpdateStatus

SpecStatus == InitStatus /\ [][NextStatus]_vars

-----------------------------------------------------------------------------
(* Transition claims, checked under SpecStatus *)

\* the transition table: the kinds listed for each kind
Listed(kind) ==
    CASE kind = "Running" -> {"Stopping", "Paused", "Restarting"}
      [] kind = "Stopped" -> {"Starting", "Removing"}
      [] kind = "Starting" -> {"Running", "Exited", "Dead"}
      [] kind = "Stopping" -> {"Stopped", "Exited"}
      [] kind = "Paused" -> {"Running", "Stopping"}
      [] kind = "Restarting" -> {"Running", "Exited", "Dead"}
      [] kind = "Exited" -> {"Starting", "Removing"}
      [] kind = "Created" -> {"Starting", "Removing"}
      [] kind = "Dead" -> {"Removing"}
      [] kind = "Removing" -> {}

C8_IdentityAlwaysLegal ==
    can_transition_to(container.status, container.status)

\* C9: can_transition_to(Exited(a), Exited(b)) is true for all exit codes a
\* and b.
C9_ExitedSameKind ==
    Kind(container.status) = "Exited" =>
        \A b \in ExitCodes : can_transition_to(container.status, Exited(b))

\* whether the pieces of text occur, in order and adjacent, in message
Names(message, text) ==
    \E k \in 0..(Len(message) - Len(text)) :
        \A j \in 1..Len(text) : message[k + j] = text[j]

\* C10: update_status(new) returns Ok and sets the status to new exactly when
\* can_transition_to(current, new) holds; otherwise it returns an InvalidInput
\* error naming both statuses and leaves the status and every other field
\* unchanged.
C10_UpdateStatus ==
    [][last_call'[1] = "update_status" =>
          LET new == last_call'[3]
          IN IF can_transition_to(container.status, new)
             THEN /\ result' = Ok
                  /\ container' = [container EXCEPT !.status = new]
             ELSE /\ result'[1] = "Err"
                  /\ result'[2][1] = "InvalidInput"
                  /\ Names(result'[2][2], ContainerStatus_to_string(container.status))
                  /\ Names(result'[2][2], ContainerStatus_to_string(new))
                  /\ container' = container]_vars

\* a record moved from Running to Stopping has then refused to go back to
\* Running
C10_Witness ==
    /\ last_call = <<"update_status", Stopping, Running>>
    /\ result[1] = "Err"
    /\ container.status = Stopping

-----------------------------------------------------------------------------
(* One Container record under a short sequence of update_status calls, each *)
(* call written down with the status it was made on and how it ended       *)

\* the call sequence of the example scenario
Scenario == <<Running, Running, Paused, Stopped>>

UpdateStatusLogged ==
    /\ Len(outcomes) < Len(Scenario)
    /\ \E new_status \in ContainerStatus :
          /\ UpdateStatusCall(new_status)
          /\ outcomes' = Append(outcomes,
                [from |-> container.status,
                 new |-> new_status,
                 outcome |-> IF result' = Ok THEN "succeed" ELSE "fail"])
    /\ UNCHANGED run_app

NextStatusLog == UpdateStatusLogged

SpecStatusLog == InitStatus /\ [][NextStatusLog]_vars

\* the example scenario has been run on a record that was Stopped
ScenarioRunFromStopped ==
    /\ Len(outcomes) = Len(Scenario)
    /\ outcomes[1].from = Stopped
    /\ \A k \in 1..Len(Scenario) : outcomes[k].new = Scenario[k]

\* how the calls made so far ended, in order
Outcomes == [k \in 1..Len(outcomes) |-> outcomes[k].outcome]

\* C11 as stated: from Stopped, update_status(Running), update_status(Running),
\* update_status(Paused), update_status(Stopped) succeed, succeed, succeed
\* and fail, and the status is then Paused.
C11_ScenarioAsStated ==
    ScenarioRunFromStopped =>
        /\ Outcomes = <<"succeed", "succeed", "succeed", "fail">>
        /\ container.status = Paused

\* C11 (amended): from Stopped, update_status(Running), update_status(Running)
\* and update_status(Paused) fail (Stopped allows only Starting and
\* Removing), update_status(Stopped) succeeds as the identity, and the
\* status is Stopped after every call.
C11_Scenario ==
    ScenarioRunFromStopped =>
        /\ Outcomes = <<"fail", "fail", "fail", "succeed">>
        /\ \A k \in 1..Len(outcomes) : outcomes[k].from = Stopped
        /\ container.status = Stopped

C11_Witness == ScenarioRunFromStopped

-----------------------------------------------------------------------------
(* Terminal status, checked under SpecStatus *)

\* C12: once a record's status is Removing, no update_status call changes
\* it to a different variant.
C12_RemovingTerminal ==
    [][Kind(container.status) = "Removing" => Kind(container'.status) = "Removing"]_vars

\* update_status(Starting) has been tried on a Removing record, and refused
C12_Witness ==
    /\ last_call = <<"update_status", Removing, Starting>>
    /\ result[1] = "Err"
    /\ container.status = Removing

-----------------------------------------------------------------------------
(* Capability claims, checked under SpecStatus on the record's status *)

\* C13 as stated: for every status s, each capability predicate implies the
\* transition to its target status: can_start to Starting, can_stop to
\* Stopping, can_pause to Paused, can_unpause to Running, can_restart to
\* Restarting, can_remove to Removing.
C13_CapabilitiesFollowTable ==
    LET s == container.status
    IN /\ can_start(s) => can_transition_to(s, Starting)
       /\ can_stop(s) => can_transition_to(s, Stopping)
       /\ can_pause(s) => can_transition_to(s, Paused)
       /\ can_unpause(s) => can_transition_to(s, Running)
       /\ can_restart(s) => can_transition_to(s, Restarting)
       /\ can_remove(s) => can_transition_to(s, Removing)

\* C14 as stated: can_stop is true for Running, Paused, Stopping and
\* Restarting, and false for Starting, Removing, Stopped, Exited, Created
\* and Dead.
C14_CanStopAsStated ==
    can_stop(container.status)
        <=> Kind(container.status) \in {"Running", "Paused", "Stopping", "Restarting"}

\* C14 (amended): can_stop is true for Running, Paused and Restarting, and
\* false for Stopping, Starting, Removing, Stopped, Exited, Created and Dead.
C14_CanStop ==
    /\ Kind(container.status) \in {"Running", "Paused", "Restarting"}
         => can_stop(container.status)
    /\ Kind(container.status) \in
         {"Stopping", "Starting", "Removing", "Stopped", "Exited", "Created", "Dead"}
         => ~can_stop(container.status)

\* a record has gone from Running to Stopping
C14_Witness ==
    /\ last_call = <<"update_status", Running, Stopping>>
    /\ result = Ok
    /\ container.status = Stopping

\* C15: is_active holds exactly for Running, Starting, Stopping, Restarting;
\* can_start exactly for Stopped, Exited, Created, Dead; can_pause exactly
\* for Running; can_unpause exactly for Paused; can_restart exactly for
\* Running, Stopped, Exited, Paused; can_remove exactly for the statuses
\* outside {Running, Starting, Stopping, Removing}.
C15_CapabilityTable ==
    LET s == container.status
        k == Kind(s)
    IN /\ is_active(s) <=> (k = "Running" \/ k = "Starting" \/ k = "Stopping" \/ k = "Restarting")
       /\ can_start(s) <=> (k = "Stopped" \/ k = "Exited" \/ k = "Created" \/ k = "Dead")
       /\ can_pause(s) <=> k = "Running"
       /\ can_unpause(s) <=> k = "Paused"
       /\ can_restart(s) <=> (k = "Running" \/ k = "Stopped" \/ k = "Exited" \/ k = "Paused")
       /\ can_remove(s) <=> (k # "Running" /\ k # "Starting" /\ k # "Stopping" /\ k # "Removing")

\* a record has gone from Running to Restarting: active, yet removable
C15_Witness ==
    /\ last_call = <<"update_status", Running, Restarting>>
    /\ result = Ok
    /\ is_active(container.status)
    /\ can_remove(container.status)

-----------------------------------------------------------------------------
(* The App under select_next and select_previous alone, from any list and  *)
(* any stored selected_index (a public field: test_out_of_bounds_navigation *)
(* stores 999 on three containers), with the calls logged                   *)

InitSelect ==
    /\ \E containers \in ContainerLists, selected_index \in 0..MaxIndex :
          app = [App_new EXCEPT !.containers = containers,
                                !.selected_index = selected_index]
    /\ widget = Widget_new
    /\ pc = "idle"
    /\ container = Container_new(Running)
    /\ result = None
    /\ last_call = <<"new">>
    /\ outcomes = <<>>
    /\ run_app = RunApp_new

SelectNextLogged ==
    /\ Len(outcomes) < MaxCalls
    /\ SelectNextCall
    /\ outcomes' = Append(outcomes,
          [call |-> "select_next", from |-> app.selected_index,
           to |-> app'.selected_index])
    /\ UNCHANGED run_app

SelectPreviousLogged ==
    /\ Len(outcomes) < MaxCalls
    /\ SelectPreviousCall
    /\ outcomes' = Append(outcomes,
          [call |-> "select_previous", from |-> app.selected_index,
           to |-> app'.selected_index])
    /\ UNCHANGED run_app

NextSelect ==
    \/ SelectNextLogged
    \/ SelectPreviousLogged

SpecSelect == InitSelect /\ [][NextSelect]_vars

\* the step is a call of select_next / select_previous on a non-empty list
\* whose selected_index is out of range
OutOfRangeCall(call) ==
    /\ last_call' = <<call>>
    /\ app.containers # <<>>
    /\ app.selected_index >= Len(app.containers)

\* the step is a call on a non-empty list whose selected_index is in range
InRangeCall(call) ==
    /\ last_call' = <<call>>
    /\ app.containers # <<>>
    /\ app.selected_index < Len(app.containers)

\* the last logged call
LastLogged == outcomes[Len(outcomes)]

\* C16 as stated: for any non-empty list and any selected_index >= list
\* length, select_next leaves selected_index equal to 1.
C16_NextRecoversToOne ==
    [][OutOfRangeCall("select_next") => app'.selected_index = 1]_vars

\* C16 (amended): for any non-empty list of length n and any selected_index
\* >= n, select_next leaves selected_index equal to 1 mod n: 1 when n >= 2,
\* and 0 when the list has a single container.
C16_NextRecovers ==
    [][OutOfRangeCall("select_next") =>
        /\ app'.selected_index = 1 % Len(app.containers)
        /\ Len(app.containers) >= 2 => app'.selected_index = 1
        /\ Len(app.containers) = 1 => app'.selected_index = 0]_vars

\* select_next has run on a single container with selected_index = MaxIndex
C16_Witness ==
    /\ outcomes # <<>>
    /\ LastLogged.call = "select_next"
    /\ Len(app.containers) = 1
    /\ LastLogged.from = MaxIndex
    /\ app.selected_index = 0

\* C17: for any non-empty list of length n and any selected_index >= n,
\* select_previous leaves selected_index equal to n-1 (the last index).
C17_PreviousRecoversToLast ==
    [][OutOfRangeCall("select_previous") =>
        app'.selected_index = Len(app.containers) - 1]_vars

\* select_previous has run on MaxLen containers with selected_index = MaxIndex
C17_Witness ==
    /\ outcomes # <<>>
    /\ LastLogged.call = "select_previous"
    /\ Len(app.containers) = MaxLen
    /\ LastLogged.from = MaxIndex
    /\ LastLogged.from >= Len(app.containers)
    /\ app.selected_index = MaxLen - 1

\* C18: on a non-empty list of length n with selected_index i < n,
\* select_next sets selected_index to (i+1) mod n, select_previous sets it
\* to (i+n-1) mod n, and neither changes the list.
C18_InRangeStep ==
    [][LET n == Len(app.containers)
           i == app.selected_index
       IN /\ InRangeCall("select_next") =>
               /\ app'.selected_index = (i + 1) % n
               /\ app'.containers = app.containers
          /\ InRangeCall("select_previous") =>
               /\ app'.selected_index = (i + n - 1) % n
               /\ app'.containers = app.containers]_vars

\* select_previous has wrapped from index 0 to the last of several containers
C18_Witness ==
    /\ outcomes # <<>>
    /\ LastLogged.call = "select_previous"
    /\ Len(app.containers) >= 2
    /\ LastLogged.from = 0
    /\ app.selected_index = Len(app.containers) - 1

\* the calls logged so far
Calls == [k \in 1..Len(outcomes) |-> outcomes[k].call]

\* n calls of one operation
Repeated(call, n) == [k \in 1..n |-> call]

\* the log is n calls of first, then n calls of second, from an in-range
\* index on a non-empty list
RoundTrip(first, second, n) ==
    /\ Calls = Repeated(first, n) \o Repeated(second, n)
    /\ app.containers # <<>>
    /\ outcomes[1].from < Len(app.containers)

\* C19: for any non-empty list, any in-range starting index and any n >= 0
\* (n = 0 makes no call), calling one of select_next and select_previous n
\* times and then the other n times returns selected_index to its starting
\* value.
C19_InverseOperations ==
    \A n \in 1..(MaxCalls \div 2) :
        (\/ RoundTrip("select_next", "select_previous", n)
         \/ RoundTrip("select_previous", "select_next", n))
            => app.selected_index = outcomes[1].from

\* MaxLen + 1 calls of select_next then as many of select_previous, on
\* MaxLen containers from the last index: the run wraps both ways
C19_Witness ==
    /\ RoundTrip("select_next", "select_previous", MaxLen + 1)
    /\ Len(app.containers) = MaxLen
    /\ outcomes[1].from = MaxLen - 1
    /\ outcomes[MaxLen + 1].to = 0
    /\ app.selected_index = MaxLen - 1

\* C20: for any non-empty list of length n and any in-range starting index,
\* calling select_next exactly n times returns selected_index to its
\* starting value.
C20_FullCircle ==
    (/\ app.containers # <<>>
     /\ Calls = Repeated("select_next", Len(app.containers))
     /\ outcomes[1].from < Len(app.containers))
        => app.selected_index = outcomes[1].from

\* select_next has run MaxLen times on MaxLen containers from index 1
C20_Witness ==
    /\ Len(app.containers) = MaxLen
    /\ Calls = Repeated("select_next", MaxLen)
    /\ outcomes[1].from = 1
    /\ app.selected_index = 1

\* C21: on an empty list, select_next and select_previous each leave
\* selected_index at 0, and the selected-record accessor returns none.
C21_EmptyList ==
    [][(/\ last_call' \in {<<"select_next">>, <<"select_previous">>}
        /\ app.containers = <<>>)
          => /\ app'.containers = <<>>
             /\ app'.selected_index = 0
             /\ selected_container(app) = None
             /\ selected_container(app') = None]_vars

\* select_next, then select_previous, have run on an empty list whose
\* stored selected_index was MaxIndex
C21_Witness ==
    /\ app.containers = <<>>
    /\ Calls = <<"select_next", "select_previous">>
    /\ outcomes[1].from = MaxIndex
    /\ outcomes[1].to = 0
    /\ outcomes[2].to = 0
    /\ selected_container(app) = None

\* C22: selected_container() and get_selected_container() return the record
\* at selected_index when selected_index < list length, and none when the
\* list is empty or selected_index is out of range; the two accessors agree
\* in every state.
C22_SelectedAccessors ==
    /\ app.selected_index < Len(app.containers) =>
          /\ selected_container(app) = Some(app.containers[app.selected_index + 1])
          /\ get_selected_container(app) = Some(app.containers[app.selected_index + 1])
    /\ (app.containers = <<>> \/ app.selected_index >= Len(app.containers)) =>
          /\ selected_container(app) = None
          /\ get_selected_container(app) = None
    /\ selected_container(app) = get_selected_container(app)

\* select_next has moved the selection to the second of two different
\* records, which both accessors return
C22_Witness ==
    /\ outcomes # <<>>
    /\ LastLogged.call = "select_next"
    /\ app.selected_index = 1
    /\ Len(app.containers) >= 2
    /\ app.containers[1] # app.containers[2]
    /\ get_selected_container(app) = Some(app.containers[2])
    /\ selected_container(app) = Some(app.containers[2])

-----------------------------------------------------------------------------
(* The App and its widget under navigation and reconciliation, from any    *)
(* list, any stored selected_index and any stored mirror (set_selected is  *)
(* public)                                                                 *)

InitSync ==
    /\ \E containers \in ContainerLists, selected_index \in 0..MaxIndex :
          app = [App_new EXCEPT !.containers = containers,
                                !.selected_index = selected_index]
    /\ \E index \in {None} \cup {Some(i) : i \in 0..MaxIndex} :
          widget = Widget_set_selected(Widget_new, index)
    /\ pc = "idle"
    /\ container = Container_new(Running)
    /\ result = None
    /\ last_call = <<"new">>
    /\ outcomes = <<>>
    /\ run_app = RunApp_new

SyncWidgetState ==
    /\ pc = "idle"
    /\ widget' = sync_widget_state(app, widget)
    /\ result' = None
    /\ last_call' = <<"sync_widget_state", widget.selected>>
    /\ UNCHANGED <<app, pc, container, outcomes, run_app>>

\* ContainerListWidget::render's first statement
SyncWithApp ==
    /\ pc = "idle"
    /\ widget' = Widget_sync_with_app(widget, app.selected_index, Len(app.containers))
    /\ result' = None
    /\ last_call' = <<"sync_with_app", widget.selected>>
    /\ UNCHANGED <<app, pc, container, outcomes, run_app>>

NextSync ==
    \/ SyncWidgetState
    \/ SyncWithApp
    \/ HandleContainerNavigation
    \/ SelectNext
    \/ SelectPrevious

SpecSync == InitSync /\ [][NextSync]_vars

\* the mirror value reconciliation is to produce from an App
Reconciled(self) ==
    IF self.containers # <<>> /\ self.selected_index < Len(self.containers)
    THEN Some(self.selected_index)
    ELSE None

\* C23: reconciliation sets the mirror to Some(selected_index) exactly when
\* the list is non-empty and selected_index < list length, and to None
\* otherwise; App::sync_widget_state and ContainerListWidget::sync_with_app
\* produce the same mirror value for the same (selected_index, list length).
C23_Reconciliation ==
    [][/\ last_call'[1] \in {"sync_widget_state", "sync_with_app"} =>
            /\ widget'.selected = Reconciled(app)
            /\ app' = app
       /\ \A count \in 0..MaxLen, i \in 0..MaxIndex :
            sync_widget_state(AppOfLength(count, i), widget)
                = Widget_sync_with_app(widget, i, count)]_vars

\* sync_with_app has replaced a stale mirror by Some(1), the selected_index
C23_Witness ==
    /\ last_call = <<"sync_with_app", Some(MaxIndex)>>
    /\ app.selected_index = 1
    /\ Len(app.containers) >= 2
    /\ widget.selected = Some(1)

\* the mirror equals Some(selected_index), in range of a non-empty list
InSync(self, w) ==
    /\ self.containers # <<>>
    /\ self.selected_index < Len(self.containers)
    /\ w.selected = Some(self.selected_index)

\* C24: if the mirror equals Some(selected_index) with selected_index in
\* range of a non-empty list, then after handle_container_navigation(Next or
\* Previous) the mirror again equals Some(selected_index), and
\* selected_index has moved by exactly one position with wraparound.
C24_NavigationKeepsSync ==
    [][(last_call'[1] = "handle_container_navigation" /\ InSync(app, widget)) =>
          LET n == Len(app.containers)
              i == app.selected_index
          IN /\ InSync(app', widget')
             /\ app'.containers = app.containers
             /\ last_call'[2] = "Next" => app'.selected_index = (i + 1) % n
             /\ last_call'[2] = "Previous" => app'.selected_index = (i + n - 1) % n]_vars

\* handle_container_navigation(Previous) has wrapped an in-sync selection
\* from index 0 to the last of MaxLen records
C24_Witness ==
    /\ last_call = <<"handle_container_navigation", "Previous", 0, Some(0)>>
    /\ Len(app.containers) = MaxLen
    /\ app.selected_index = MaxLen - 1
    /\ widget.selected = Some(MaxLen - 1)

-----------------------------------------------------------------------------
(* handle_key_event and validate_key_input applied to any key event *)

InitKeys ==
    /\ app = App_new
    /\ widget = Widget_new
    /\ pc = "idle"
    /\ container = Container_new(Running)
    /\ result = None
    /\ last_call = <<"new">>
    /\ outcomes = <<>>
    /\ \E key_event \in KeyEvent :
          run_app = [RunApp_new EXCEPT !.key_event = Some(key_event)]

HandleKeyEvent ==
    /\ run_app' = [run_app EXCEPT
                      !.app_event = Some(handle_key_event(run_app.key_event[1]))]
    /\ result' = None
    /\ last_call' = <<"handle_key_event", run_app.key_event[1]>>
    /\ UNCHANGED <<app, widget, pc, container, outcomes>>

ValidateKeyInput ==
    /\ result' = Some(validate_key_input(run_app.key_event[1]))
    /\ last_call' = <<"validate_key_input", run_app.key_event[1]>>
    /\ UNCHANGED <<app, widget, pc, container, outcomes, run_app>>

NextKeys ==
    \/ HandleKeyEvent
    \/ ValidateKeyInput

SpecKeys == InitKeys /\ [][NextKeys]_vars

\* the action the claimed key table gives a key event
KeyTable(key_event) ==
    LET code == key_event.code
    IN CASE code \in {<<"Char", "j">>, <<"Down">>} -> AppEvent_SelectNext
         [] code \in {<<"Char", "k">>, <<"Up">>} -> AppEvent_SelectPrevious
         [] code = <<"Enter">> -> AppEvent_Enter
         [] code \in {<<"Char", "r">>, <<"F", 5>>} -> AppEvent_Refresh
         [] code \in {<<"Char", "q">>, <<"Esc">>} -> AppEvent_Quit
         [] code = <<"Char", "c">> /\ "CONTROL" \in key_event.modifiers -> AppEvent_ForceQuit
         [] OTHER -> AppEvent_Unknown

\* C30: handle_key_event is a total, deterministic and pure mapping: every
\* key event yields exactly one action, with j/Down -> SelectNext, k/Up ->
\* SelectPrevious, Enter -> Enter, r/F5 -> Refresh, q/Esc -> Quit, 'c' with
\* Control -> ForceQuit, and every other key (including 'c' without
\* Control) -> Unknown; a call changes nothing but its returned action.
C30_KeyMapping ==
    [][last_call'[1] = "handle_key_event" =>
          /\ run_app'.app_event \in {Some(e) : e \in AppEvent}
          /\ run_app'.app_event = Some(KeyTable(run_app.key_event[1]))
          /\ run_app'.app_event = Some(handle_key_event(last_call'[2]))
          /\ run_app' = [run_app EXCEPT !.app_event = run_app'.app_event]
          /\ UNCHANGED <<app, widget, pc, container, outcomes>>]_vars

\* handle_key_event has mapped 'c' without Control to Unknown
C30_Witness ==
    /\ last_call = <<"handle_key_event", [code |-> <<"Char", "c">>, modifiers |-> {"SHIFT"}]>>
    /\ run_app.app_event = Some(AppEvent_Unknown)

-----------------------------------------------------------------------------
(* main's initial load (src/main.rs:81-98) and run_app, the event loop     *)
(* (src/main.rs:227-277). run_app.at is the                                *)
(* statement the loop is at; run_app.due says that TARGET_FPS has elapsed  *)
(* since last_render. Time passes while the loop waits for input or for    *)
(* the runtime's answer.                                                   *)

InitLoop ==
    /\ app = App_new
    /\ widget = Widget_new
    /\ pc = "idle"
    /\ container = Container_new(Running)
    /\ result = None
    /\ last_call = <<"new">>
    /\ outcomes = <<>>
    /\ run_app = [RunApp_new EXCEPT !.at = "main"]

\* whether TARGET_FPS has elapsed after a wait of unknown length
TimePasses(due) == IF due THEN {TRUE} ELSE BOOLEAN

\* main's initial container load (src/main.rs:85-94), up to the await in
\* refresh_containers
MainRefreshContainers ==
    /\ run_app.at = "main"
    /\ pc = "idle"
    /\ app' = refresh_containers_begin(app)
    /\ pc' = "initial_load"
    /\ run_app' = [run_app EXCEPT !.in_flight = @ + 1]
    /\ last_call' = <<"main", "list_containers">>
    /\ UNCHANGED <<widget, container, result, outcomes>>

\* the initial load succeeds; main calls run_app
MainListContainersOk ==
    /\ pc = "initial_load"
    /\ \E containers \in ContainerLists :
          /\ app' = refresh_containers_ok(app, containers)
          /\ last_call' = <<"main", "refresh_containers", <<"Ok", containers>>>>
    /\ run_app' = [run_app EXCEPT !.at = "while", !.in_flight = @ - 1]
    /\ pc' = "idle"
    /\ UNCHANGED <<widget, container, result, outcomes>>

\* the initial load fails: main prints a warning and calls run_app anyway
MainListContainersErr ==
    /\ pc = "initial_load"
    /\ \E error \in ListErrors :
          /\ app' = refresh_containers_err(app, error)
          /\ last_call' = <<"main", "refresh_containers", <<"Err", error>>>>
    /\ run_app' = [run_app EXCEPT !.at = "while", !.in_flight = @ - 1]
    /\ pc' = "idle"
    /\ UNCHANGED <<widget, container, result, outcomes>>

\* while app.is_running()
LoopWhile ==
    /\ run_app.at = "while"
    /\ IF is_running(app)
       THEN /\ run_app' = [run_app EXCEPT !.at = "poll"]
            /\ UNCHANGED result
       ELSE /\ run_app' = [run_app EXCEPT !.at = "returned"]
            /\ result' = Ok
    /\ last_call' = <<"is_running", is_running(app)>>
    /\ UNCHANGED <<app, widget, pc, container, outcomes>>

\* event::poll returns Ok(false) after EVENT_POLL_INTERVAL
PollTimeout ==
    /\ run_app.at = "poll"
    /\ run_app' = [run_app EXCEPT
                      !.at = "render",
                      !.due = @ \/ EVENT_POLL_INTERVAL >= TARGET_FPS]
    /\ last_call' = <<"poll", FALSE>>
    /\ UNCHANGED <<app, widget, pc, container, result, outcomes>>

\* event::poll returns Err: the ? returns it from run_app
PollFails ==
    /\ run_app.at = "poll"
    /\ \E due \in TimePasses(run_app.due) :
          run_app' = [run_app EXCEPT !.at = "returned", !.due = due]
    /\ result' = Err(Io)
    /\ last_call' = <<"poll", Err(Io)>>
    /\ UNCHANGED <<app, widget, pc, container, outcomes>>

\* event::poll returns Ok(true) and event::read a key event
ReadKey ==
    /\ run_app.at = "poll"
    /\ run_app.event_stats.total_events < MaxEvents
    /\ \E key_event \in KeyEvent, due \in TimePasses(run_app.due) :
          /\ IF validate_key_input(key_event)
             THEN run_app' = [run_app EXCEPT
                                 !.at = "process",
                                 !.due = due,
                                 !.app_event = Some(handle_key_event(key_event))]
             ELSE run_app' = [run_app EXCEPT !.at = "render", !.due = due]
          /\ last_call' = <<"read", Some(key_event)>>
    /\ UNCHANGED <<app, widget, pc, container, result, outcomes>>

\* event::poll returns Ok(true) and event::read an error or another event
ReadOther ==
    /\ run_app.at = "poll"
    /\ \E due \in TimePasses(run_app.due) :
          run_app' = [run_app EXCEPT !.at = "render", !.due = due]
    /\ last_call' = <<"read", None>>
    /\ UNCHANGED <<app, widget, pc, container, result, outcomes>>

\* process_app_event for every event but Refresh
ProcessAppEvent ==
    /\ run_app.at = "process"
    /\ pc = "idle"
    /\ run_app.app_event # Some(AppEvent_Refresh)
    /\ app' = process_app_event(app, run_app.app_event[1])
    /\ result' = Ok
    /\ run_app' = [run_app EXCEPT !.at = "record"]
    /\ last_call' = <<"process_app_event", run_app.app_event[1]>>
    /\ UNCHANGED <<widget, pc, container, outcomes>>

\* a Refresh that returns once the call is sent, without awaiting the answer
ProcessRefresh_unawaited ==
    /\ run_app.at = "process"
    /\ pc = "idle"
    /\ run_app.app_event = Some(AppEvent_Refresh)
    /\ app' = refresh_containers_begin(app)
    /\ pc' = "list_containers"
    /\ result' = Ok
    /\ run_app' = [run_app EXCEPT !.at = "record", !.in_flight = @ + 1]
    /\ last_call' = <<"list_containers">>
    /\ UNCHANGED <<widget, container, outcomes>>

\* process_app_event(Refresh) up to the await in refresh_containers
ProcessRefresh ==
    /\ run_app.at = "process"
    /\ pc = "idle"
    /\ run_app.app_event = Some(AppEvent_Refresh)
    /\ app' = refresh_containers_begin(app)
    /\ pc' = "list_containers"
    /\ run_app' = [run_app EXCEPT !.in_flight = @ + 1]
    /\ last_call' = <<"list_containers">>
    /\ UNCHANGED <<widget, container, result, outcomes>>

\* the runtime answers with a list; process_app_event returns Ok
ListContainersOk ==
    /\ pc = "list_containers"
    /\ \E containers \in ContainerLists, due \in TimePasses(run_app.due) :
          /\ app' = refresh_containers_ok(app, containers)
          /\ run_app' = [run_app EXCEPT
                            !.at = "record", !.due = due, !.in_flight = @ - 1]
          /\ last_call' = <<"refresh_containers", <<"Ok", containers>>, app.selected_index>>
    /\ result' = Ok
    /\ pc' = "idle"
    /\ UNCHANGED <<widget, container, outcomes>>

\* the runtime answers with an error; process_app_event returns it
ListContainersErr ==
    /\ pc = "list_containers"
    /\ \E error \in ListErrors, due \in TimePasses(run_app.due) :
          /\ app' = refresh_containers_err(app, error)
          /\ run_app' = [run_app EXCEPT
                            !.at = "record", !.due = due, !.in_flight = @ - 1]
          /\ result' = Err(error)
          /\ last_call' = <<"refresh_containers", <<"Err", error>>, app.selected_index>>
    /\ pc' = "idle"
    /\ UNCHANGED <<widget, container, outcomes>>

\* event_stats.record_event(&app_event, &result), and the end of the if
RecordEvent ==
    /\ run_app.at = "record"
    /\ run_app' = [run_app EXCEPT
                      !.at = "render",
                      !.event_stats = record_event(@, run_app.app_event[1], result),
                      !.app_event = None]
    /\ last_call' = <<"record_event", run_app.app_event[1], result>>
    /\ UNCHANGED <<app, widget, pc, container, result, outcomes>>

\* TARGET_FPS has elapsed: render_ui draws the App, last_render = now
RenderUi ==
    /\ run_app.at = "render"
    /\ run_app.due
    /\ run_app' = [run_app EXCEPT !.at = "while", !.due = FALSE]
    /\ last_call' = <<"render_ui", app.view_state, Ok>>
    /\ UNCHANGED <<app, widget, pc, container, result, outcomes>>

\* TARGET_FPS has elapsed and terminal.draw fails: the ? returns the error
RenderFails ==
    /\ run_app.at = "render"
    /\ run_app.due
    /\ run_app' = [run_app EXCEPT !.at = "returned"]
    /\ result' = Err(UiRendering(<<"UI rendering failed: ", "e">>))
    /\ last_call' = <<"render_ui", app.view_state, result'>>
    /\ UNCHANGED <<app, widget, pc, container, outcomes>>

\* TARGET_FPS has not elapsed: no render, the loop yields and goes round
RenderSkipped ==
    /\ run_app.at = "render"
    /\ ~run_app.due
    /\ run_app' = [run_app EXCEPT !.at = "while"]
    /\ last_call' = <<"yield_now">>
    /\ UNCHANGED <<app, widget, pc, container, result, outcomes>>

NextLoop ==
    \/ MainRefreshContainers
    \/ MainListContainersOk
    \/ MainListContainersErr
    \/ LoopWhile
    \/ PollTimeout
    \/ PollFails
    \/ ReadKey
    \/ ReadOther
    \/ ProcessAppEvent
    \/ ProcessRefresh
    \/ ListContainersOk
    \/ ListContainersErr
    \/ RecordEvent
    \/ RenderUi
    \/ RenderFails
    \/ RenderSkipped

SpecLoop == InitLoop /\ [][NextLoop]_vars
\* the step reads input (a poll, with or without an event) or renders
ReadsOrRenders == last_call'[1] \in {"poll", "read", "render_ui"}

\* C25: in the event loop each dispatched action, including the whole of an
\* awaited refresh, runs to completion before the next key event is read or
\* the next render happens, so at most one call to the runtime client is in
\* flight at any time.
C25_ActionsRunToCompletion ==
    [][/\ ReadsOrRenders =>
            /\ run_app.app_event = None
            /\ pc = "idle"
            /\ run_app.in_flight = 0
       /\ run_app.in_flight <= 1
       /\ run_app'.in_flight <= 1]_vars

\* a key is read after a refresh that was in flight has completed
C25_Witness ==
    /\ last_call[1] = "read"
    /\ run_app.app_event = Some(AppEvent_SelectNext)
    /\ run_app.event_stats.action_events = 1
    /\ app.view_state = ContainerList
    /\ app.containers # <<>>
    /\ run_app.in_flight = 0

\* C26: when process_app_event returns an error (a failed refresh), the
\* error is recorded, is_running() stays true, and the loop goes on to poll
\* and process subsequent key events: run_app returns only when is_running()
\* is false or when poll or render_ui fails.
C26_ActionErrorNotFatal ==
    [][/\ (last_call'[1] = "refresh_containers" /\ result'[1] = "Err") =>
            /\ is_running(app')
            /\ run_app'.at = "record"
       /\ (last_call'[1] = "record_event" /\ result[1] = "Err") =>
            /\ run_app'.event_stats.error_count = run_app.event_stats.error_count + 1
            /\ is_running(app')
            /\ app' = app
            /\ run_app'.at = "render"
       /\ (run_app.at # "returned" /\ run_app'.at = "returned") =>
            \/ last_call' = <<"is_running", FALSE>>
            \/ last_call' = <<"poll", Err(Io)>>
            \/ (last_call'[1] = "render_ui" /\ last_call'[3] # Ok)]_vars

\* after a failed refresh was recorded, the loop has read and processed the
\* next key
C26_Witness ==
    /\ last_call = <<"process_app_event", AppEvent_SelectPrevious>>
    /\ run_app.event_stats.error_count = 1
    /\ run_app.event_stats.total_events = 1
    /\ app.view_state[1] = "Error"
    /\ is_running(app)

\* the action just recorded was state-mutating: a quit, a refresh, or a
\* navigation over two or more containers
StateMutatingActionProcessed ==
    /\ last_call[1] = "record_event"
    /\ \/ last_call[2] \in {AppEvent_Quit, AppEvent_ForceQuit, AppEvent_Refresh}
       \/ /\ last_call[2] \in {AppEvent_SelectNext, AppEvent_SelectPrevious}
          /\ Len(app.containers) >= 2

\* C27: after any state-mutating action has been processed, a render is
\* triggered immediately, before the next input is read, whether or not the
\* throttle interval has elapsed since the previous render.
C27_RenderAfterAction ==
    [][StateMutatingActionProcessed => last_call'[1] = "render_ui"]_vars

\* the key codes of the model that are outside the validator's allow-list
RejectedCodes ==
    {<<name>> : name \in {"Insert", "Null", "CapsLock", "ScrollLock", "NumLock",
                          "PrintScreen", "Pause", "Menu", "KeypadBegin"}}

\* the step reads a key event that the validator refuses
RejectedKeyRead ==
    /\ last_call'[1] = "read"
    /\ last_call'[2] # None
    /\ \/ last_call'[2][1].code \in RejectedCodes
       \/ ~validate_key_input(last_call'[2][1])

\* C31: the validator rejects Insert, Pause, ScrollLock and every other key
\* code outside its allow-list before the key reaches the mapping function:
\* in the event loop a rejected key is never passed to handle_key_event or
\* process_app_event and changes no application state or event statistic.
C31_RejectedKeysIgnored ==
    [][/\ RejectedKeyRead =>
            /\ app' = app
            /\ run_app'.event_stats = run_app.event_stats
            /\ run_app'.key_event = None
            /\ run_app'.app_event = None
            /\ run_app'.at = "render"
            /\ UNCHANGED <<widget, pc, container, result, outcomes>>
       /\ (run_app.app_event = None /\ run_app'.app_event # None) =>
            /\ last_call'[1] = "read"
            /\ last_call'[2] # None
            /\ last_call'[2][1].code \notin RejectedCodes
            /\ validate_key_input(last_call'[2][1])
            /\ run_app'.app_event = Some(handle_key_event(last_call'[2][1]))
       /\ last_call'[1] \in {"process_app_event", "list_containers"} =>
            /\ last_call[1] = "read"
            /\ last_call[2] # None
            /\ last_call[2][1].code \notin RejectedCodes
            /\ run_app.app_event = Some(handle_key_event(last_call[2][1]))
       /\ last_call'[1] \in {"refresh_containers", "record_event"} =>
            run_app.app_event # None]_vars

\* Insert was read and refused after an earlier key had been processed
C31_Witness ==
    /\ last_call = <<"read", Some([code |-> <<"Insert">>, modifiers |-> {}])>>
    /\ run_app.at = "render"
    /\ run_app.app_event = None
    /\ run_app.event_stats.total_events = 1
    /\ run_app.event_stats.navigation_events = 1

\* no navigation, refresh, Enter or Unknown action applied to self makes
\* is_running() true
StaysStopped(self) ==
    /\ \A event \in {AppEvent_SelectNext, AppEvent_SelectPrevious,
                      AppEvent_Enter, AppEvent_Unknown} :
          ~is_running(process_app_event(self, event))
    /\ LET loading == refresh_containers_begin(self)
       IN /\ ~is_running(loading)
          /\ \A containers \in ContainerLists :
                ~is_running(refresh_containers_ok(loading, containers))
          /\ \A error \in ListErrors :
                ~is_running(refresh_containers_err(loading, error))

\* C32: after a Quit or ForceQuit action has been processed, is_running() is
\* false and no later navigation, refresh, Enter or Unknown action makes it
\* true again, so the event loop exits without processing any further key
\* event: what remains is the record of the quit itself, at most one
\* render, and the loop test that returns.
C32_QuitIsFinal ==
    [][/\ (/\ last_call'[1] = "process_app_event"
           /\ last_call'[2] \in {AppEvent_Quit, AppEvent_ForceQuit}) =>
            ~is_running(app')
       /\ ~is_running(app) =>
            /\ ~is_running(app')
            /\ StaysStopped(app)
            /\ last_call'[1] \in {"record_event", "render_ui", "yield_now",
                                   "is_running"}
            /\ last_call'[1] = "record_event" =>
                  last_call'[2] \in {AppEvent_Quit, AppEvent_ForceQuit}
            /\ last_call'[1] = "is_running" =>
                  /\ run_app'.at = "returned"
                  /\ result' = Ok]_vars

\* the loop has returned after a second key, q, was processed
C32_Witness ==
    /\ last_call = <<"is_running", FALSE>>
    /\ run_app.at = "returned"
    /\ app.should_quit
    /\ app.running
    /\ run_app.event_stats.total_events = 2
    /\ run_app.event_stats.action_events = 1

\* a refresh_containers call has just returned, in main or in the loop
RefreshReturned ==
    \/ last_call[1] = "refresh_containers"
    \/ (last_call[1] = "main" /\ last_call[2] = "refresh_containers")

\* C36: Loading is transient: refresh_containers never returns with
\* view_state = Loading, and in the event loop no render observes
\* view_state = Loading, because every refresh has resolved to ContainerList
\* or Error before the next render.
C36_LoadingTransient ==
    /\ RefreshReturned => app.view_state[1] \in {"ContainerList", "Error"}
    /\ last_call[1] = "render_ui" => last_call[2][1] \in {"ContainerList", "Error"}
    /\ run_app.at = "render" => app.view_state # Loading
    /\ app.view_state = Loading =>
          \/ run_app.at = "main"
          \/ pc \in {"initial_load", "list_containers"}

\* a render has shown the error of a refresh that failed in the loop, after
\* the initial load had succeeded
C36_Witness ==
    /\ last_call[1] = "render_ui"
    /\ last_call[2][1] = "Error"
    /\ app.containers # <<>>
    /\ run_app.event_stats.error_count = 1

-----------------------------------------------------------------------------
(* BollardDockerRepository's mutating operations                           *)
(* (src/infrastructure/docker/bollard_client.rs:338-509). An operation is  *)
(* the calls it sends to the runtime client, in order, and its result;     *)
(* result None says that the operation awaits the client's answer.         *)

Container_can_start(self) == can_start(self.status)

Container_can_stop(self) == can_stop(self.status)

Container_can_pause(self) == can_pause(self.status)

Container_can_unpause(self) == can_unpause(self.status)

Container_can_remove(self) == can_remove(self.status)

Container_can_restart(self) == can_restart(self.status)

\* format!("Container {} cannot be <verb> from status {}", id, status)
cannot_be(found, verb) ==
    <<"Container ", found.id, " cannot be ", verb, " from status ">>
        \o ContainerStatus_to_string(found.status)

start_container(found) ==
    IF ~Container_can_start(found)
    THEN [calls |-> <<"list_containers">>,
          result |-> Err(InvalidInput(cannot_be(found, "started")))]
    ELSE [calls |-> <<"list_containers", "start_container">>, result |-> None]

\* a stop that sends the call without looking at the status
stop_container_with_timeout_unchecked(found) ==
    [calls |-> <<"list_containers", "stop_container">>, result |-> None]

stop_container_with_timeout(found) ==
    IF ~Container_can_stop(found)
    THEN [calls |-> <<"list_containers">>,
          result |-> Err(InvalidInput(cannot_be(found, "stopped")))]
    ELSE [calls |-> <<"list_containers", "stop_container">>, result |-> None]

stop_container(found) == stop_container_with_timeout(found)

remove_container(found, force) ==
    IF force
    THEN [calls |-> <<"remove_container">>, result |-> None]
    ELSE IF ~Container_can_remove(found)
    THEN [calls |-> <<"list_containers">>,
          result |-> Err(InvalidInput(cannot_be(found, "removed")
                                        \o <<" (use force=true to override)">>))]
    ELSE [calls |-> <<"list_containers", "remove_container">>, result |-> None]

restart_container(found) ==
    IF ~Container_can_restart(found)
    THEN [calls |-> <<"list_containers">>,
          result |-> Err(InvalidInput(cannot_be(found, "restarted")))]
    ELSE [calls |-> <<"list_containers", "restart_container">>, result |-> None]

pause_container(found) ==
    IF ~Container_can_pause(found)
    THEN [calls |-> <<"list_containers">>,
          result |-> Err(InvalidInput(cannot_be(found, "paused")))]
    ELSE [calls |-> <<"list_containers", "pause_container">>, result |-> None]

unpause_container(found) ==
    IF ~Container_can_unpause(found)
    THEN [calls |-> <<"list_containers">>,
          result |-> Err(InvalidInput(cannot_be(found, "unpaused")))]
    ELSE [calls |-> <<"list_containers", "unpause_container">>, result |-> None]

\* the operations that look the container up before they act
Operations ==
    {"start_container", "stop_container", "remove_container",
     "restart_container", "pause_container", "unpause_container"}

\* the runtime holds one container, in any status; outcomes logs the calls
\* the runtime client receives
InitRepository ==
    /\ app = App_new
    /\ widget = Widget_new
    /\ pc = "idle"
    /\ \E status \in ContainerStatus : container = Container_new(status)
    /\ result = None
    /\ last_call = <<"new">>
    /\ outcomes = <<>>
    /\ run_app = RunApp_new

\* an operation runs up to its return or to its await of the mutating call
RepositoryCall(operation, name, force, observed) ==
    /\ pc = "idle"
    /\ Len(outcomes) + Len(operation.calls) <= MaxClientCalls
    /\ outcomes' = outcomes \o operation.calls
    /\ result' = operation.result
    /\ pc' = IF operation.result = None THEN "client" ELSE "idle"
    /\ last_call' = <<name, force, observed>>
    /\ UNCHANGED <<app, widget, container, run_app>>

StartContainer ==
    RepositoryCall(start_container(container), "start_container",
                   FALSE, Some(container.status))

StopContainer ==
    RepositoryCall(stop_container(container), "stop_container",
                   FALSE, Some(container.status))

RemoveContainer ==
    \E force \in BOOLEAN :
        RepositoryCall(remove_container(container, force), "remove_container",
                       force, IF force THEN None ELSE Some(container.status))

RestartContainer ==
    RepositoryCall(restart_container(container), "restart_container",
                   FALSE, Some(container.status))

PauseContainer ==
    RepositoryCall(pause_container(container), "pause_container",
                   FALSE, Some(container.status))

UnpauseContainer ==
    RepositoryCall(unpause_container(container), "unpause_container",
                   FALSE, Some(container.status))

\* get_container fails: the listing fails or does not hold the id
GetContainerFails ==
    \E name \in Operations,
       error \in ListErrors \cup {ContainerNotFound(container.id)} :
        RepositoryCall([calls |-> <<"list_containers">>, result |-> Err(error)],
                       name, FALSE, None)

\* the client answers the mutating call
ClientOk ==
    /\ pc = "client"
    /\ result' = Ok
    /\ pc' = "idle"
    /\ UNCHANGED <<app, widget, container, last_call, outcomes, run_app>>

ClientErr ==
    /\ pc = "client"
    /\ result' = Err(DockerApi)
    /\ pc' = "idle"
    /\ UNCHANGED <<app, widget, container, last_call, outcomes, run_app>>

\* the runtime moves the container to another status
RuntimeChanges ==
    /\ \E status \in ContainerStatus \ {container.status} :
          container' = [container EXCEPT !.status = status]
    /\ UNCHANGED <<app, widget, pc, result, last_call, outcomes, run_app>>

NextRepository ==
    \/ StartContainer
    \/ StopContainer
    \/ RemoveContainer
    \/ RestartContainer
    \/ PauseContainer
    \/ UnpauseContainer
    \/ GetContainerFails
    \/ ClientOk
    \/ ClientErr
    \/ RuntimeChanges

SpecRepository == InitRepository /\ [][NextRepository]_vars

\* the capability predicate that matches an operation
MatchingPredicate(name, status) ==
    CASE name = "start_container" -> can_start(status)
      [] name = "stop_container" -> can_stop(status)
      [] name = "remove_container" -> can_remove(status)
      [] name = "restart_container" -> can_restart(status)
      [] name = "pause_container" -> can_pause(status)
      [] name = "unpause_container" -> can_unpause(status)

\* the mutating calls among the calls the client received
Mutating(calls) == SelectSeq(calls, LAMBDA c : c # "list_containers")

\* C28: for start, stop, restart, pause, unpause and non-forced remove, when
\* the container's observed status fails the matching capability predicate,
\* the repository returns an InvalidInput error and issues no mutating call
\* to the runtime client.
C28_IllegalRejectedLocally ==
    [][(/\ pc = "idle"
        /\ outcomes' # outcomes
        /\ last_call'[1] \in Operations
        /\ last_call'[3] # None
        /\ ~last_call'[2]
        /\ ~MatchingPredicate(last_call'[1], last_call'[3][1])) =>
            /\ result' # None
            /\ result'[1] = "Err"
            /\ result'[2][1] = "InvalidInput"
            /\ Mutating(outcomes') = Mutating(outcomes)
            /\ pc' = "idle"]_vars

\* stop_container on a container observed Stopping is refused after the
\* lookup, the only call the client has received
C28_Witness ==
    /\ last_call = <<"stop_container", FALSE, Some(Stopping)>>
    /\ result = Err(InvalidInput(<<"Container ", "test-123",
                                   " cannot be ", "stopped",
                                   " from status ", "Stopping">>))
    /\ outcomes = <<"list_containers">>
    /\ pc = "idle"

-----------------------------------------------------------------------------
(* ContainerBuilder::build, ContainerId::new and Container::validate        *)
(* (src/domain/entities/container.rs, src/domain/value_objects/             *)
(* container_id.rs). A String is what the checks read of it: its length,   *)
(* and whether all its characters are ASCII letters, digits, '-' or '_'.   *)
(* An instant is its distance from the clock reading of build.             *)

String(len, id_chars) == [len |-> len, id_chars |-> id_chars]

\* Utc::now() as build reads it
Utc_now == 0

OkOf(value) == <<"Ok", value>>

ContainerBuilder_new ==
    [id |-> None,
     name |-> None,
     image |-> None,
     status |-> None,
     created_at |-> None,
     labels |-> <<>>,
     command |-> None,
     working_dir |-> None]

ContainerId_new(id) ==
    IF id.len = 0
    THEN Err(InvalidInput(<<"Container ID cannot be empty">>))
    ELSE IF id.len > MaxIdLength
    THEN Err(InvalidInput(<<"Container ID too long: ", ToString(id.len),
                            " characters (max 64)">>))
    ELSE IF ~id.id_chars
    THEN Err(InvalidInput(<<"Container ID contains invalid characters. Only alphanumeric, '-', and '_' are allowed">>))
    ELSE OkOf(id)

\* the first label, in iteration order, that validate rejects, or 0
RECURSIVE first_bad_label(_, _)
first_bad_label(labels, k) ==
    IF k > Len(labels)
    THEN 0
    ELSE IF \/ labels[k].key.len = 0
            \/ labels[k].key.len > MaxFieldLength
            \/ labels[k].value.len > MaxFieldLength
    THEN k
    ELSE first_bad_label(labels, k + 1)

\* a validate that checks label keys and not label values
validate_label_keys_only(self, now) ==
    IF self.name.len > MaxFieldLength
    THEN Err(InvalidInput(<<"Container name too long (max 255 characters)">>))
    ELSE IF self.image.len = 0
    THEN Err(InvalidInput(<<"Container image cannot be empty">>))
    ELSE IF self.image.len > MaxFieldLength
    THEN Err(InvalidInput(<<"Container image name too long (max 255 characters)">>))
    ELSE IF self.created_at > now
    THEN Err(InvalidInput(<<"Container creation time cannot be in the future">>))
    ELSE IF \E k \in 1..Len(self.labels) : self.labels[k].key.len = 0
    THEN Err(InvalidInput(<<"Container label key cannot be empty">>))
    ELSE IF \E k \in 1..Len(self.labels) : self.labels[k].key.len > MaxFieldLength
    THEN Err(InvalidInput(<<"Container label key or value too long (max 255 characters)">>))
    ELSE Ok

\* Container::validate, now being its reading of Utc::now()
validate(self, now) ==
    IF self.name.len > MaxFieldLength
    THEN Err(InvalidInput(<<"Container name too long (max 255 characters)">>))
    ELSE IF self.image.len = 0
    THEN Err(InvalidInput(<<"Container image cannot be empty">>))
    ELSE IF self.image.len > MaxFieldLength
    THEN Err(InvalidInput(<<"Container image name too long (max 255 characters)">>))
    ELSE IF self.created_at > now
    THEN Err(InvalidInput(<<"Container creation time cannot be in the future">>))
    ELSE LET k == first_bad_label(self.labels, 1)
         IN IF k = 0
            THEN Ok
            ELSE IF self.labels[k].key.len = 0
            THEN Err(InvalidInput(<<"Container label key cannot be empty">>))
            ELSE Err(InvalidInput(<<"Container label key or value too long (max 255 characters)">>))

\* ContainerBuilder::build, now being validate's reading of Utc::now()
build(self, now) ==
    IF self.id = None
    THEN Err(InvalidInput(<<"Container ID is required">>))
    ELSE IF self.image = None
    THEN Err(InvalidInput(<<"Container image is required">>))
    ELSE IF self.status = None
    THEN Err(InvalidInput(<<"Container status is required">>))
    ELSE LET id == ContainerId_new(self.id[1])
         IN IF id[1] = "Err"
            THEN id
            ELSE LET built == [id |-> id[2],
                               name |-> unwrap_or(self.name, String(0, TRUE)),
                               image |-> self.image[1],
                               status |-> self.status[1],
                               created_at |-> unwrap_or(self.created_at, Utc_now),
                               labels |-> self.labels,
                               command |-> self.command,
                               working_dir |-> self.working_dir]
                     valid == validate(built, now)
                 IN IF valid[1] = "Err" THEN valid ELSE OkOf(built)

\* the ids, names, images and labels a builder is given
BuilderIds ==
    {String(0, TRUE), String(MaxIdLength, TRUE), String(MaxIdLength, FALSE),
     String(MaxIdLength + 1, TRUE)}

BuilderNames == {String(MaxFieldLength, TRUE), String(MaxFieldLength + 1, TRUE)}

BuilderImages ==
    {String(0, TRUE), String(MaxFieldLength, TRUE), String(MaxFieldLength + 1, TRUE)}

BuilderLabels ==
    [key : {String(0, TRUE), String(1, TRUE), String(MaxFieldLength + 1, TRUE)},
     value : {String(MaxFieldLength, TRUE), String(MaxFieldLength + 1, TRUE)}]

\* the labels in the order validate iterates over them
LabelMaps == UNION {[1..n -> BuilderLabels] : n \in 0..MaxLabels}

\* Option<T> over a set of values
Option(S) == {None} \cup {Some(x) : x \in S}

\* any builder, before build
InitBuild ==
    /\ app = App_new
    /\ widget = Widget_new
    /\ pc = "idle"
    /\ container = Container_new(Running)
    /\ result = None
    /\ \E id \in Option(BuilderIds), name \in Option(BuilderNames), image \in Option(BuilderImages),
          status \in Option({Running}),
          created_at \in Option((Utc_now - 1)..(Utc_now + 1)),
          labels \in LabelMaps :
          last_call = <<"builder",
                        [ContainerBuilder_new EXCEPT
                            !.id = id, !.name = name, !.image = image,
                            !.status = status, !.created_at = created_at,
                            !.labels = labels]>>
    /\ outcomes = <<>>
    /\ run_app = RunApp_new

\* build(), the clock having advanced or not when validate reads it
Build ==
    /\ last_call[1] = "builder"
    /\ \E now \in {Utc_now, Utc_now + 1} :
          /\ result' = build(last_call[2], now)
          /\ last_call' = <<"build", last_call[2], now>>
    /\ UNCHANGED <<app, widget, pc, container, outcomes, run_app>>

NextBuild == Build

SpecBuild == InitBuild /\ [][NextBuild]_vars

\* every check the claim lists passes for a builder, validate reading now
EveryCheckPasses(b, now) ==
    /\ b.id # None
    /\ b.id[1].len > 0
    /\ b.id[1].len <= 64
    /\ b.id[1].id_chars
    /\ b.name # None => b.name[1].len <= 255
    /\ b.image # None
    /\ b.image[1].len > 0
    /\ b.image[1].len <= 255
    /\ b.status # None
    /\ b.created_at # None => ~(b.created_at[1] > now)
    /\ \A k \in 1..Len(b.labels) :
          /\ b.labels[k].key.len > 0
          /\ b.labels[k].key.len <= 255
          /\ b.labels[k].value.len <= 255

\* C29: ContainerBuilder::build returns a record only if every check passes
\* (id present, non-empty, at most 64 characters, only letters, digits, '-'
\* and '_'; name at most 255; image present, non-empty, at most 255; status
\* present; created_at not after now; every label key non-empty; every
\* label key and value at most 255); on any violation it returns a
\* validation error and no record.
C29_BuildValidates ==
    [][last_call'[1] = "build" =>
          LET b == last_call'[2]
              now == last_call'[3]
          IN /\ result'[1] = "Ok" => EveryCheckPasses(b, now)
             /\ ~EveryCheckPasses(b, now) =>
                   /\ result'[1] = "Err"
                   /\ result'[2][1] = "InvalidInput"
             /\ result'[1] = "Ok" =>
                   /\ result'[2].id = b.id[1]
                   /\ result'[2].image = b.image[1]
                   /\ result'[2].labels = b.labels]_vars

\* build has refused a builder whose only fault is a label value of 256
\* characters, after a label that passes
C29_Witness ==
    /\ last_call[1] = "build"
    /\ last_call[2].id = Some(String(MaxIdLength, TRUE))
    /\ last_call[2].name = None
    /\ last_call[2].image = Some(String(MaxFieldLength, TRUE))
    /\ last_call[2].status = Some(Running)
    /\ last_call[2].created_at = Some(Utc_now)
    /\ last_call[2].labels =
          <<[key |-> String(1, TRUE), value |-> String(MaxFieldLength, TRUE)],
            [key |-> String(1, TRUE), value |-> String(MaxFieldLength + 1, TRUE)]>>
    /\ result = Err(InvalidInput(<<"Container label key or value too long (max 255 characters)">>))

-----------------------------------------------------------------------------
(* Direct transitions, active and removable statuses, and the way to       *)
(* Removing, checked under SpecStatus on the record's status               *)

\* C33: a Running container can transition directly to Stopped:
\* can_transition_to(Running, Stopped) is true.
C33_RunningToStopped ==
    container.status = Running => can_transition_to(container.status, Stopped)

\* C35: no status is both active and removable: for every status s,
\* is_active(s) implies that can_remove(s) is false.
C35_ActiveNotRemovable ==
    is_active(container.status) => ~can_remove(container.status)

\* the statuses a record in one of the statuses S can be taken to by
\* transitions that can_transition_to allows
RECURSIVE ReachableFrom(_)
ReachableFrom(S) ==
    LET step == S \cup {target \in ContainerStatus :
                            \E s \in S : can_transition_to(s, target)}
    IN IF step = S THEN S ELSE ReachableFrom(step)

\* self has no legal transition to a different status
Terminal(self) ==
    \A target \in ContainerStatus :
        target # self => ~can_transition_to(self, target)

\* C38: every container can eventually be removed: from every status,
\* Removing is reachable through a finite sequence of transitions that
\* can_transition_to allows, and Removing is the only status with no legal
\* transition to a different status.
C38_RemovingReachable ==
    /\ Removing \in ReachableFrom({container.status})
    /\ Terminal(container.status) <=> container.status = Removing

\* a record that was Dead has been taken to Removing
C38_Witness ==
    /\ last_call = <<"update_status", Dead, Removing>>
    /\ result = Ok
    /\ container.status = Removing
    /\ Terminal(container.status)

-----------------------------------------------------------------------------
(* The App under select_next, select_previous and refresh_containers alone, *)
(* from App::new                                                            *)

NextNavigate ==
    \/ SelectNext
    \/ SelectPrevious
    \/ RefreshBegin
    \/ RefreshOk
    \/ RefreshErr

SpecNavigate == Init /\ [][NextNavigate]_vars

\* C34: using only select_next, select_previous and refresh_containers
\* (succeeding with any list, or failing) from the initial App state, every
\* reachable state satisfies: a non-empty list implies selected_index < list
\* length, and an empty list implies selected_index = 0.
C34_IndexInRangeWithoutWidget ==
    /\ app.containers # <<>> => app.selected_index < Len(app.containers)
    /\ app.containers = <<>> => app.selected_index = 0

\* a refresh has replaced a longer list, with its last record selected, by
\* a list of one record
C34_Witness ==
    /\ last_call[1] = "refresh_containers"
    /\ last_call[2][1] = "Ok"
    /\ last_call[3] = MaxLen - 1
    /\ Len(app.containers) = 1
    /\ app.selected_index = 0

-----------------------------------------------------------------------------
(* The validator against the key bindings, checked under SpecKeys *)

\* C37: every key event that handle_key_event maps to an action other than
\* Unknown is accepted by validate_key_input, so no key binding is made
\* unreachable by the validator in the event loop.
C37_BindingsPassValidator ==
    /\ (/\ run_app.app_event # None
        /\ run_app.app_event[1] # AppEvent_Unknown) =>
            validate_key_input(run_app.key_event[1])
    /\ (/\ last_call[1] = "validate_key_input"
        /\ handle_key_event(last_call[2]) # AppEvent_Unknown) =>
            result = Some(TRUE)
    /\ \A event \in AppEvent \ {AppEvent_Unknown} :
          \E key_event \in KeyEvent :
              /\ validate_key_input(key_event)
              /\ handle_key_event(key_event) = event

\* F5, which is bound to Refresh, has been mapped and has passed the
\* validator
C37_Witness ==
    /\ last_call = <<"validate_key_input", [code |-> <<"F", 5>>, modifiers |-> {}]>>
    /\ run_app.app_event = Some(AppEvent_Refresh)
    /\ result = Some(TRUE)

-----------------------------------------------------------------------------
(* A fresh EventStats under any sequence of record_event calls, with any   *)
(* event and any result; outcomes keeps, call by call, whether the result  *)
(* was an error                                                            *)

InitStats ==
    /\ app = App_new
    /\ widget = Widget_new
    /\ pc = "idle"
    /\ container = Container_new(Running)
    /\ result = None
    /\ last_call = <<"new">>
    /\ outcomes = <<>>
    /\ run_app = RunApp_new

\* one call event_stats.record_event(&event, &res)
RecordEventCall ==
    /\ Len(outcomes) < MaxCalls
    /\ \E event \in AppEvent, res \in {Ok} \cup {Err(error) : error \in ListErrors} :
          /\ run_app' = [run_app EXCEPT !.event_stats = record_event(@, event, res)]
          /\ last_call' = <<"record_event", event, res>>
          /\ outcomes' = Append(outcomes, res[1] = "Err")
    /\ UNCHANGED <<app, widget, pc, container, result>>

NextStats == RecordEventCall

SpecStats == InitStats /\ [][NextStats]_vars

\* the number of recorded results that were errors
ErrorsRecorded == Cardinality({i \in 1..Len(outcomes) : outcomes[i]})

\* the totals of self agree with each other and with the calls made
Tallied(self) ==
    /\ self.total_events
          = self.navigation_events + self.action_events + self.unknown_events
    /\ self.total_events = Len(outcomes)
    /\ self.error_count = ErrorsRecorded
    /\ self.error_count <= self.total_events

\* from before to after, exactly one of the three category counters has
\* grown, by one, and the other two are as they were
OneCategoryCounted(before, after) ==
    LET grown == {f \in {"navigation_events", "action_events", "unknown_events"} :
                      after[f] = before[f] + 1}
        same == {f \in {"navigation_events", "action_events", "unknown_events"} :
                      after[f] = before[f]}
    IN Cardinality(grown) = 1 /\ Cardinality(same) = 2

\* C39: after any sequence of record_event calls on a fresh EventStats,
\* total_events = navigation_events + action_events + unknown_events, each
\* call increments exactly one of those three category counters, and
\* error_count equals the number of recorded results that were errors (so
\* error_count <= total_events).
C39_StatsTally ==
    /\ [](Tallied(run_app.event_stats))
    /\ [][last_call'[1] = "record_event" =>
            /\ OneCategoryCounted(run_app.event_stats, run_app'.event_stats)
            /\ run_app'.event_stats.total_events
                  = run_app.event_stats.total_events + 1]_vars

\* the calls of test_event_stats, in some order: one navigation, one
\* action, one unknown event, one error
C39_Witness ==
    /\ last_call[1] = "record_event"
    /\ run_app.event_stats =
          [total_events |-> 3, navigation_events |-> 1, action_events |-> 1,
           unknown_events |-> 1, error_count |-> 1]
    /\ outcomes = <<FALSE, FALSE, TRUE>>

====
